---- MODULE Spec2Model ----
(***************************************************************************)
(* on-air: the listening side's DisplayState (per-source states, combined *)
(* state, blink-and-hold colour protocol) in its two variants:            *)
(*   - the package  src/on_air/__init__.py  (keeps _last_color)           *)
(*   - the script   src/on_air.py           (has a CLEAR colour)          *)
(* and the publishing side's poll loop.                                    *)
(* Three listeners are given the same messages on the same schedule: the  *)
(* package variant with a blink(1) device, the package variant with       *)
(* device=None (--no-blink1), and the script variant with a device.  Each *)
(* has its own DisplayState object and its own callback threads, and each *)
(* thread decides from the object of its own listener.                    *)
(* The callback is modelled line by line: one action per device command   *)
(* or shared-field access of recieve_message and update, run by the       *)
(* subscriber's threads with no lock between them, and the main thread's  *)
(* __exit__ as a step that may fall between any two.                      *)
(* update, script_update and _blink are the same code run from start to   *)
(* end with no other thread's step in between.                            *)
(***************************************************************************)
EXTENDS Integers, Sequences, FiniteSets, TLC

\* Number of distinct source names that report (source names are 1..NumSources).
NumSources == 2

Sources == 1..NumSources

\* Most PIDs lsof reports as owners of the audio (or video) device files.
MaxOwners == 2

\* Most messages the publishers put on the topic.
MaxPublished == 3

\* Number of threads the subscriber runs callbacks on.
NumThreads == 2

Threads == 1..NumThreads

\* Most messages that reach the subscriber.
MaxMessages == 2

\* Most messages that reach the subscriber with their publish time followed.
MaxTimed == 2

\* Most deliveries when the first message may be delivered again.
MaxDeliveries == 2

\* Most messages that reach the subscriber when malformed ones are among them.
MaxWithMalformed == 2

\* src/on_air/__init__.py:279, timedelta(minutes=1), in seconds
_LISTEN_SKEW == 60

\* src/on_air/__init__.py:187
_BLINK_REPEAT == 3

\* Colours, as the RGB triples of the source.
_RGB_VIDEO == <<255, 0, 0>>
_RGB_AUDIO == <<0, 0, 255>>
_RGB_OFF == <<0, 0, 0>>
\* script variant only
_RGB_CLEAR == <<0, 255, 0>>

\* The device argument of DisplayState: a Blink1 object, or None.
None == "None"
Blink1 == "Blink1"

\* A well-formed message body: {"audio": bool, "video": bool, "source": name}.
Payload == [source : Sources, audio : BOOLEAN, video : BOOLEAN]

\* Message data that is not UTF-8 text or not JSON.
Undecodable == [undecodable |-> TRUE]

\* The empty dict that defaultdict(dict) creates on a missing key.
EmptyDict == [k \in {} |-> TRUE]

NoMessage == [none |-> TRUE]
NoState == [none |-> TRUE]
NoCallback == [none |-> TRUE]
NoPoll == [none |-> TRUE]

VARIABLES
    pkg,        \* package variant, device = Blink1(): [self, req, hw, lit, raised]
    nodev,      \* package variant, device = None
    script,     \* script variant, device = Blink1()
    th,         \* the callback each subscriber thread of pkg's listener is
                \* running, line by line: the locals of recieve_message and
                \* update [pc, payload, state, size, pos, color, held, i]
                \* and fresh (the lookup created the source's entry); the
                \* locals that no later line reads are dropped once the
                \* colour has been chosen
    nodev_th,   \* the same for nodev's listener
    script_th,  \* the same for script's listener
    msg,        \* payload of the most recent call of update (NoMessage before)
    before,     \* pkg as it was when the most recent call started
    script_before, \* script as it was when the most recent call started
    alive,      \* the listening scope (the with block) has not been left
    started,    \* number of callbacks started
    acks,       \* number of messages acknowledged
    overlapped, \* a callback has started while another was running
    cb,         \* the most recent start of recieve_message with its clock
                \* reading: [publish_time, now, decodable, outcome], or NoCallback
    tracked,    \* the message whose deliveries are followed (the first one
                \* delivered), or NoMessage
    since,      \* what else was delivered since tracked first was: "nothing",
                \* "other_sources", or "same_source"
    shown,      \* number of display transitions made for tracked (2: two or more)
    last_payload, \* poll_av_and_publish of each source: its last_payload
    stream_pc,  \* poll_av_and_publish of each source: "poll" (before the
                \* probe), "publish" (in publish_payload), "raised" (left
                \* by an exception)
    stream_payload, \* poll_av_and_publish of each source: the payload handed
                \* to publish_payload, while the call runs
    topic,      \* the messages published so far, in order
    poll        \* the most recent poll: [payload, prev, published], or NoPoll

\* the variables of the serial calls' history, of the deliveries' history,
\* of the publishers, of the threads
hist_vars == <<msg, before, script_before>>
skew_vars == <<cb>>
track_vars == <<tracked, since, shown>>
stream_vars == <<last_payload, stream_pc, stream_payload, topic, poll>>
thread_vars == <<th, nodev_th, script_th>>
object_vars == <<pkg, nodev, script>>

vars == <<object_vars, thread_vars, hist_vars, alive, started, acks,
          overlapped, skew_vars, track_vars, stream_vars>>

(***************************************************************************)
(* An execution context c is [self, req, hw, lit, raised]:                *)
(*   self    the DisplayState object's fields                             *)
(*   req     colours requested through _solid during the current call     *)
(*   hw      commands the device received during the current call         *)
(*   lit     the colour the device shows                                  *)
(*   raised  the exception the current call raised, or None               *)
(***************************************************************************)

\* ComputedState(audio=..., video=...)
ComputedState(audio, video) == [audio |-> audio, video |-> video]

\* What state["audio"] or state["video"] raises on a payload without that key.
KeyError == [raised |-> "KeyError"]

\* ComputedState.from_source_states, the body of the for loop (lines 209-212)
\* for one stored payload: acc holds the locals audio and video.
from_source_states_body(acc, state) ==
    IF "audio" \notin DOMAIN state \/ "video" \notin DOMAIN state
    THEN KeyError
    ELSE ComputedState(IF state["audio"] THEN TRUE ELSE acc.audio,
                       IF state["video"] THEN TRUE ELSE acc.video)

\* ComputedState.from_source_states: the loop over the stored payloads, run
\* with the mapping left alone meanwhile.  The result then does not depend on
\* the order of iteration: it is KeyError exactly when some stored payload
\* lacks a key.
RECURSIVE from_source_states_loop(_, _, _)
from_source_states_loop(source_states, todo, acc) ==
    IF todo = {} THEN acc
    ELSE LET k == CHOOSE x \in todo : TRUE
             next == from_source_states_body(acc, source_states[k])
         IN IF next = KeyError THEN KeyError
            ELSE from_source_states_loop(source_states, todo \ {k}, next)

from_source_states(source_states) ==
    from_source_states_loop(source_states, DOMAIN source_states,
                            ComputedState(FALSE, FALSE))

\* DisplayState.__init__ (package)
DisplayState(device) ==
    [device |-> device,
     source_states |-> [s \in {} |-> EmptyDict],
     keys |-> <<>>,
     state |-> ComputedState(FALSE, FALSE),
     last_color |-> _RGB_OFF]

\* DisplayState.__init__ (script): no _last_color
script_DisplayState(device) ==
    [device |-> device,
     source_states |-> [s \in {} |-> EmptyDict],
     keys |-> <<>>,
     state |-> ComputedState(FALSE, FALSE)]

\* defaultdict lookup: a missing key is inserted with an empty dict.
defaultdict_getitem(source_states, key) ==
    IF key \in DOMAIN source_states THEN source_states
    ELSE (key :> EmptyDict) @@ source_states

\* The keys of the dict in insertion order, after a lookup of key.
keys_after_getitem(keys, key) ==
    IF \E i \in 1..Len(keys) : keys[i] = key THEN keys ELSE Append(keys, key)

\* self._source_states[source_name] (line 254) as it leaves the object
getitem(self, key) ==
    [self EXCEPT !.source_states = defaultdict_getitem(@, key),
                 !.keys = keys_after_getitem(@, key)]

\* self._source_states.values(): the stored payloads in insertion order
dict_values(self) ==
    LET present(k) == k \in DOMAIN self.source_states
        ks == SelectSeq(self.keys, present)
    IN [i \in 1..Len(ks) |-> self.source_states[ks[i]]]

\* dict item assignment
dict_setitem(source_states, key, value) ==
    [k \in DOMAIN source_states \cup {key} |->
        IF k = key THEN value ELSE source_states[k]]

fade_to_rgb(color) == [cmd |-> "fade_to_rgb", rgb |-> color]
off == [cmd |-> "off"]

\* without the "if self._device" test a None device raises AttributeError
_solid_ignores_device(c, color) ==
    IF c.self.device /= None
    THEN [c EXCEPT !.req = Append(@, color),
                   !.hw = Append(@, fade_to_rgb(color)),
                   !.lit = color]
    ELSE [c EXCEPT !.req = Append(@, color), !.raised = "AttributeError"]

\* DisplayState._solid (package)
_solid(c, color) ==
    IF c.self.device /= None
    THEN [c EXCEPT !.req = Append(@, color),
                   !.hw = Append(@, fade_to_rgb(color)),
                   !.lit = color]
    ELSE [c EXCEPT !.req = Append(@, color)]

\* self._last_color, as _blink reads it
held_color(self) == self.last_color

\* DisplayState._blink (package): n iterations left of the for loop
RECURSIVE _blink_loop(_, _, _)
_blink_loop(c, color, n) ==
    IF n = 0 THEN c
    ELSE _blink_loop(_solid(_solid(c, color), held_color(c.self)), color, n - 1)

_blink(c, color) == _blink_loop(c, color, _BLINK_REPEAT)

\* The two early returns of update: previous_source_state == payload and
\* self._state == state.
unchanged(previous, current) == previous = current

\* self._last_color = color
set_last_color(self, color) == [self EXCEPT !.last_color = color]

\* the colour choice with the audio test first
target_color_audio_first(state) ==
    IF state.audio THEN _RGB_AUDIO
    ELSE IF state.video THEN _RGB_VIDEO
    ELSE _RGB_OFF

\* DisplayState.update, the if/elif/else choosing the colour (package)
target_color(state) ==
    IF state.video THEN _RGB_VIDEO
    ELSE IF state.audio THEN _RGB_AUDIO
    ELSE _RGB_OFF

\* DisplayState.update (package), run from its first line to its return
\* with nothing else running in between
update(c, payload) ==
    LET source_name == payload.source
        c1 == [c EXCEPT !.self = getitem(@, source_name)]
        previous_source_state == c1.self.source_states[source_name]
    IN IF unchanged(previous_source_state, payload) THEN c1
       ELSE LET c2 == [c1 EXCEPT !.self.source_states =
                          dict_setitem(@, source_name, payload)]
                state == from_source_states(c2.self.source_states)
            IN IF state = KeyError THEN [c2 EXCEPT !.raised = "KeyError"]
               ELSE IF unchanged(c2.self.state, state) THEN c2
               ELSE LET c3 == [c2 EXCEPT !.self.state = state]
                        color == target_color(state)
                        c4 == _blink(c3, color)
                        c5 == _solid(c4, color)
                    IN [c5 EXCEPT !.self = set_last_color(@, color)]

\* DisplayState.__exit__
__exit__(c) ==
    IF c.self.device /= None
    THEN [c EXCEPT !.hw = Append(@, off), !.lit = _RGB_OFF]
    ELSE c

\* DisplayState._solid (script)
script_solid(c, color) ==
    IF c.self.device /= None
    THEN [c EXCEPT !.req = Append(@, color),
                   !.hw = Append(@, fade_to_rgb(color)),
                   !.lit = color]
    ELSE [c EXCEPT !.req = Append(@, color)]

\* DisplayState._blink (script): alternates with _RGB_OFF
RECURSIVE script_blink_loop(_, _, _)
script_blink_loop(c, color, n) ==
    IF n = 0 THEN c
    ELSE script_blink_loop(script_solid(script_solid(c, color), _RGB_OFF), color, n - 1)

script_blink(c, color) == script_blink_loop(c, color, _BLINK_REPEAT)

\* The colour of the _solid call that follows _blink (script): _RGB_OFF in
\* the all-clear branch, the blinked colour in the others.
script_final_color(color) == IF color = _RGB_CLEAR THEN _RGB_OFF ELSE color

\* DisplayState.update, the if/elif/else choosing the colour (script)
script_target_color(state) ==
    IF state.video THEN _RGB_VIDEO
    ELSE IF state.audio THEN _RGB_AUDIO
    ELSE _RGB_CLEAR

\* DisplayState.update (script), run from its first line to its return with
\* nothing else running in between
script_update(c, payload) ==
    LET source_name == payload.source
        c1 == [c EXCEPT !.self = getitem(@, source_name)]
        previous_source_state == c1.self.source_states[source_name]
    IN IF unchanged(previous_source_state, payload) THEN c1
       ELSE LET c2 == [c1 EXCEPT !.self.source_states =
                          dict_setitem(@, source_name, payload)]
                state == from_source_states(c2.self.source_states)
            IN IF state = KeyError THEN [c2 EXCEPT !.raised = "KeyError"]
               ELSE IF unchanged(c2.self.state, state) THEN c2
               ELSE LET c3 == [c2 EXCEPT !.self.state = state]
                        color == script_target_color(state)
                    IN script_solid(script_blink(c3, color),
                                    script_final_color(color))

\* A call starts with nothing requested and nothing sent yet.
begin_call(c) == [c EXCEPT !.req = <<>>, !.hw = <<>>, !.raised = None]

Context(self) ==
    [self |-> self, req |-> <<>>, hw |-> <<>>, lit |-> _RGB_OFF, raised |-> None]

\* Of a call's record only the last command the device received is kept.
last_command_only(c) ==
    [c EXCEPT !.req = <<>>,
              !.raised = None,
              !.hw = IF @ = <<>> THEN <<>> ELSE <<@[Len(@)]>>]


\* A subscriber thread that runs no callback.
Idle == [pc |-> "idle", payload |-> NoMessage, fresh |-> FALSE,
         state |-> NoState, size |-> 0, pos |-> 0,
         color |-> _RGB_OFF, held |-> _RGB_OFF, i |-> 0]

\* run_listen up to the with statement: device chosen, device.off(),
\* DisplayState(device); run_stream up to the while loop: last_payload = None
Init ==
    /\ pkg = Context(DisplayState(Blink1))
    /\ nodev = Context(DisplayState(None))
    /\ script = Context(script_DisplayState(Blink1))
    /\ th = [t \in Threads |-> Idle]
    /\ nodev_th = [t \in Threads |-> Idle]
    /\ script_th = [t \in Threads |-> Idle]
    /\ msg = NoMessage
    /\ before = Context(DisplayState(Blink1))
    /\ script_before = Context(script_DisplayState(Blink1))
    /\ alive = TRUE
    /\ started = 0
    /\ acks = 0
    /\ overlapped = FALSE
    /\ cb = NoCallback
    /\ tracked = NoMessage
    /\ since = "nothing"
    /\ shown = 0
    /\ last_payload = [s \in Sources |-> NoMessage]
    /\ stream_pc = [s \in Sources |-> "poll"]
    /\ stream_payload = [s \in Sources |-> NoMessage]
    /\ topic = <<>>
    /\ poll = NoPoll

(***************************************************************************)
(* The listener, line by line.  The subscriber runs recieve_message on    *)
(* its threads while the main thread waits in future.result(); the        *)
(* threads share the DisplayState object and the device, and nothing in   *)
(* run_listen or DisplayState takes a lock.  A step operator takes the    *)
(* object's context c and the thread's locals l and gives both after the  *)
(* line has run; an exception ends the callback (update and               *)
(* recieve_message are left by it and message.ack() is not reached).      *)
(*                                                                         *)
(* msg, before, script_before and the req and hw logs of the contexts     *)
(* describe one call at a time: they are kept while the scope is open and *)
(* no two callbacks have overlapped, and cleared (the logs cut to the     *)
(* device's last command) from then on.                                   *)
(***************************************************************************)

Result(c, l) == [c |-> c, l |-> l]

\* The locals of a callback whose call of update has returned.
returned == [Idle EXCEPT !.pc = "ack"]

raise(c, e) == Result([c EXCEPT !.raised = e], Idle)

\* update, lines 253-257: the defaultdict lookup and the equality test
lookup(c, l) ==
    LET source_name == l.payload.source
        c1 == [c EXCEPT !.self = getitem(@, source_name)]
        previous_source_state == c1.self.source_states[source_name]
    IN Result(c1,
              IF unchanged(previous_source_state, l.payload)
              THEN returned
              ELSE [l EXCEPT !.pc = "store",
                             !.fresh = source_name \notin DOMAIN c.self.source_states])

\* update, line 258
store(c, l) ==
    Result([c EXCEPT !.self.source_states =
                dict_setitem(@, l.payload.source, l.payload)],
           [l EXCEPT !.pc = "recompute"])

\* update, line 260, up to the first entry: self._source_states.values() is
\* handed to from_source_states, audio and video are False (lines 205-206)
\* and the for statement makes the iterator, which notes the size of the dict.
recompute(c, l) ==
    Result(c, [l EXCEPT !.pc = "iterate",
                        !.state = ComputedState(FALSE, FALSE),
                        !.size = Cardinality(DOMAIN c.self.source_states),
                        !.pos = 0])

\* from_source_states, one turn of the for loop (lines 208-212): the iterator
\* raises RuntimeError when the dict has changed size since the loop began,
\* ends the loop after the last entry, and otherwise yields the next stored
\* payload, whose flags are read.
iterate(c, l) ==
    LET values == dict_values(c.self)
    IN IF Len(values) /= l.size
       THEN raise(c, "RuntimeError")
       ELSE IF l.pos = l.size
       THEN Result(c, [l EXCEPT !.pc = "compare", !.size = 0, !.pos = 0])
       ELSE LET acc == from_source_states_body(l.state, values[l.pos + 1])
            IN IF acc = KeyError
               THEN raise(c, "KeyError")
               ELSE Result(c, [l EXCEPT !.state = acc, !.pos = @ + 1])

\* update, lines 261-263: if self._state == state: return
compare(c, l) ==
    Result(c, IF unchanged(c.self.state, l.state)
              THEN returned
              ELSE [l EXCEPT !.pc = "assign"])

\* update, lines 264-272 (package): self._state = state, the colour is chosen
assign(c, l) ==
    Result([c EXCEPT !.self.state = l.state],
           [Idle EXCEPT !.pc = "blink_new", !.state = l.state,
                        !.color = target_color(l.state)])

\* update, lines 199-208 (script)
script_assign(c, l) ==
    Result([c EXCEPT !.self.state = l.state],
           [Idle EXCEPT !.pc = "blink_new", !.state = l.state,
                        !.color = script_target_color(l.state)])

\* A line that called _solid: the callback goes on unless _solid raised.
commanded(c, l) == IF c.raised /= None THEN Result(c, Idle) ELSE Result(c, l)

\* for _ in range(0, _BLINK_REPEAT): exhausted after i iterations
blink_done(i) == i = _BLINK_REPEAT

\* _blink, line 247 (package): self._solid(color)
blink_new(c, l) ==
    commanded(_solid(c, l.color),
              [l EXCEPT !.pc = "blink_old", !.state = NoState])

\* _blink, line 182 (script)
script_blink_new(c, l) ==
    commanded(script_solid(c, l.color),
              [l EXCEPT !.pc = "blink_old", !.state = NoState])

\* _blink, lines 248-249 (package): the sleep ends and the argument of
\* the next _solid call, self._last_color, is read
read_last(c, l) ==
    Result(c, [l EXCEPT !.pc = "blink_old_cmd", !.held = held_color(c.self)])

\* _blink, lines 183-184 (script): the sleep ends; the argument of the
\* next _solid call is the constant _RGB_OFF
script_read_last(c, l) ==
    Result(c, [l EXCEPT !.pc = "blink_old_cmd", !.held = _RGB_OFF])

\* _blink, line 249 (package): self._solid(...) with the colour read; the
\* sleep of line 250 and the next turn of the for loop follow
blink_old(c, l) ==
    commanded(_solid(c, l.held),
              [l EXCEPT !.pc = IF blink_done(l.i + 1) THEN "solid" ELSE "blink_new",
                        !.i = @ + 1,
                        !.held = _RGB_OFF])

\* _blink, lines 184-185 (script): self._solid(_RGB_OFF)
script_blink_old(c, l) ==
    commanded(script_solid(c, l.held),
              [l EXCEPT !.pc = IF blink_done(l.i + 1) THEN "solid" ELSE "blink_new",
                        !.i = @ + 1,
                        !.held = _RGB_OFF])

\* update, line 275 (package): self._solid(color)
solid(c, l) ==
    commanded(_solid(c, l.color),
              [l EXCEPT !.pc = "set_last"])

\* update, line 210 or line 214 (script): self._solid(_RGB_OFF) in the
\* all-clear branch, self._solid(color) in the others
script_solid_last(c, l) ==
    commanded(script_solid(c, script_final_color(l.color)),
              [l EXCEPT !.pc = "set_last"])

\* update, line 276 (package): self._last_color = color; update returns
set_last(c, l) ==
    Result([c EXCEPT !.self = set_last_color(@, l.color)],
           returned)

\* update, line 211 or the end of the function (script): update returns
script_return(c, l) == Result(c, returned)

\* recieve_message, line 318: message.ack(); the callback returns
ack(c, l) == Result(c, Idle)

\* The next line of a callback of a package listener.
step(c, l) ==
    CASE l.pc = "lookup" -> lookup(c, l)
      [] l.pc = "store" -> store(c, l)
      [] l.pc = "recompute" -> recompute(c, l)
      [] l.pc = "iterate" -> iterate(c, l)
      [] l.pc = "compare" -> compare(c, l)
      [] l.pc = "assign" -> assign(c, l)
      [] l.pc = "blink_new" -> blink_new(c, l)
      [] l.pc = "blink_old" -> read_last(c, l)
      [] l.pc = "blink_old_cmd" -> blink_old(c, l)
      [] l.pc = "solid" -> solid(c, l)
      [] l.pc = "set_last" -> set_last(c, l)
      [] l.pc = "ack" -> ack(c, l)
      [] OTHER -> Result(c, l)

\* The next line of a callback of the script's listener.
script_step(c, l) ==
    CASE l.pc = "lookup" -> lookup(c, l)
      [] l.pc = "store" -> store(c, l)
      [] l.pc = "recompute" -> recompute(c, l)
      [] l.pc = "iterate" -> iterate(c, l)
      [] l.pc = "compare" -> compare(c, l)
      [] l.pc = "assign" -> script_assign(c, l)
      [] l.pc = "blink_new" -> script_blink_new(c, l)
      [] l.pc = "blink_old" -> script_read_last(c, l)
      [] l.pc = "blink_old_cmd" -> script_blink_old(c, l)
      [] l.pc = "solid" -> script_solid_last(c, l)
      [] l.pc = "set_last" -> script_return(c, l)
      [] l.pc = "ack" -> ack(c, l)
      [] OTHER -> Result(c, l)

NoCallRunning == \A u \in Threads : th[u].pc = "idle"

\* The thread the subscriber hands the next callback to: its threads are
\* interchangeable, the first free one is taken.
free_thread(t) ==
    /\ th[t].pc = "idle"
    /\ \A u \in Threads : u < t => th[u].pc /= "idle"

\* The commands of a step as the logs keep them.
logged(c) == IF alive /\ ~overlapped THEN c ELSE last_command_only(c)

\* Thread t of each listener runs its next line.
Advance(t) ==
    LET p == step(pkg, th[t])
        n == step(nodev, nodev_th[t])
        s == script_step(script, script_th[t])
    IN /\ pkg' = logged(p.c)
       /\ th' = [th EXCEPT ![t] = p.l]
       /\ nodev' = logged(n.c)
       /\ nodev_th' = [nodev_th EXCEPT ![t] = n.l]
       /\ script' = logged(s.c)
       /\ script_th' = [script_th EXCEPT ![t] = s.l]
       /\ UNCHANGED <<hist_vars, alive, started, overlapped, skew_vars,
                      tracked, since, stream_vars>>

\* The locals of a callback that is about to call update.
called(payload) == [Idle EXCEPT !.pc = "lookup", !.payload = payload]

\* recieve_message is entered on thread t with a message inside the skew
\* window whose data decodes to payload (lines 302-316):
\* display_state.update(data) is called.  The subscriber goes on calling it
\* after the with block has been left.
enter(t, payload) ==
    /\ free_thread(t)
    /\ started < MaxMessages
    /\ started' = started + 1
    /\ th' = [th EXCEPT ![t] = called(payload)]
    /\ nodev_th' = [nodev_th EXCEPT ![t] = called(payload)]
    /\ script_th' = [script_th EXCEPT ![t] = called(payload)]
    /\ LET alone == alive /\ NoCallRunning /\ ~overlapped
       IN /\ overlapped' = (overlapped \/ ~NoCallRunning)
          /\ pkg' = IF alone THEN begin_call(pkg) ELSE last_command_only(pkg)
          /\ nodev' = IF alone THEN begin_call(nodev) ELSE last_command_only(nodev)
          /\ script' = IF alone THEN begin_call(script) ELSE last_command_only(script)
          /\ msg' = IF alone THEN payload ELSE NoMessage
          /\ before' = IF alone THEN pkg ELSE Context(DisplayState(Blink1))
          /\ script_before' = IF alone THEN script
                              ELSE Context(script_DisplayState(Blink1))
    /\ UNCHANGED <<alive, acks, shown, stream_vars>>

\* The transport delivers a message.
Receive ==
    /\ \E t \in Threads, payload \in Payload : enter(t, payload)
    /\ UNCHANGED <<cb, tracked, since>>

Lookup(t) == th[t].pc = "lookup" /\ Advance(t) /\ UNCHANGED <<acks, shown>>

Store(t) == th[t].pc = "store" /\ Advance(t) /\ UNCHANGED <<acks, shown>>

Recompute(t) == th[t].pc = "recompute" /\ Advance(t) /\ UNCHANGED <<acks, shown>>

Iterate(t) == th[t].pc = "iterate" /\ Advance(t) /\ UNCHANGED <<acks, shown>>

Compare(t) == th[t].pc = "compare" /\ Advance(t) /\ UNCHANGED <<acks, shown>>

\* The callback has passed the test of line 261: it makes a display
\* transition.
Assign(t) ==
    /\ th[t].pc = "assign"
    /\ Advance(t)
    /\ shown' = IF th[t].payload = tracked /\ shown < 2 THEN shown + 1 ELSE shown
    /\ UNCHANGED acks

BlinkNew(t) == th[t].pc = "blink_new" /\ Advance(t) /\ UNCHANGED <<acks, shown>>

ReadLast(t) == th[t].pc = "blink_old" /\ Advance(t) /\ UNCHANGED <<acks, shown>>

BlinkOld(t) == th[t].pc = "blink_old_cmd" /\ Advance(t) /\ UNCHANGED <<acks, shown>>

Solid(t) == th[t].pc = "solid" /\ Advance(t) /\ UNCHANGED <<acks, shown>>

SetLast(t) == th[t].pc = "set_last" /\ Advance(t) /\ UNCHANGED <<acks, shown>>

Ack(t) ==
    /\ th[t].pc = "ack"
    /\ Advance(t)
    /\ acks' = acks + 1
    /\ UNCHANGED shown

\* The steps of a running callback on thread t.
Run(t) ==
    \/ Lookup(t) \/ Store(t) \/ Recompute(t) \/ Iterate(t) \/ Compare(t)
    \/ Assign(t) \/ BlinkNew(t) \/ ReadLast(t) \/ BlinkOld(t) \/ Solid(t)
    \/ SetLast(t) \/ Ack(t)

\* The main thread leaves the with block (the SIGINT handler's sys.exit, an
\* exception, or a return of future.result()): DisplayState.__exit__.  The
\* callback threads go on and the subscriber goes on starting callbacks.
Exit ==
    /\ alive
    /\ alive' = FALSE
    /\ pkg' = [last_command_only(__exit__(pkg)) EXCEPT !.raised = __exit__(pkg).raised]
    /\ nodev' = [last_command_only(__exit__(nodev)) EXCEPT !.raised = __exit__(nodev).raised]
    /\ script' = [last_command_only(__exit__(script)) EXCEPT !.raised = __exit__(script).raised]
    /\ msg' = NoMessage
    /\ before' = Context(DisplayState(Blink1))
    /\ script_before' = Context(script_DisplayState(Blink1))
    /\ UNCHANGED <<thread_vars, started, acks, overlapped, skew_vars,
                   track_vars, stream_vars>>

Next ==
    \/ Receive
    \/ \E t \in Threads : Run(t)
    \/ Exit

\* The listener, its subscriber running callbacks on its threads.
Spec == Init /\ [][Next]_vars

(***************************************************************************)
(* Deliveries of one message followed: the transport is at-least-once,    *)
(* the first message it delivers may be delivered again at any time.      *)
(***************************************************************************)

\* The transport delivers its first message.
ReceiveTracked ==
    /\ started < MaxDeliveries
    /\ tracked = NoMessage
    /\ \E t \in Threads, payload \in Payload :
          /\ enter(t, payload)
          /\ tracked' = payload
    /\ UNCHANGED <<cb, since>>

\* The transport delivers the first message once more.
Redeliver ==
    /\ started < MaxDeliveries
    /\ tracked /= NoMessage
    /\ \E t \in Threads : enter(t, tracked)
    /\ UNCHANGED <<cb, tracked, since>>

\* The transport delivers another message.
ReceiveOther ==
    /\ started < MaxDeliveries
    /\ tracked /= NoMessage
    /\ \E t \in Threads, payload \in Payload \ {tracked} :
          /\ enter(t, payload)
          /\ since' = IF payload.source = tracked.source \/ since = "same_source"
                      THEN "same_source"
                      ELSE "other_sources"
    /\ UNCHANGED <<cb, tracked>>

NextRedeliver ==
    \/ ReceiveTracked
    \/ Redeliver
    \/ ReceiveOther
    \/ \E t \in Threads : Run(t)
    \/ Exit

\* The listener under a transport that repeats its first message.
SpecRedeliver == Init /\ [][NextRedeliver]_vars

(***************************************************************************)
(* Malformed messages.                                                     *)
(***************************************************************************)

\* A message body that names its source and lacks the audio or the video key.
MalformedPayload ==
    [source : Sources, audio : BOOLEAN] \cup [source : Sources, video : BOOLEAN]

\* The transport delivers a malformed message: json.loads succeeds and
\* display_state.update(data) is called with it.
ReceiveMalformed ==
    /\ started < MaxWithMalformed
    /\ \E t \in Threads, payload \in MalformedPayload : enter(t, payload)
    /\ UNCHANGED <<cb, tracked, since>>

\* The transport delivers a well-formed message.
ReceiveWellFormed == started < MaxWithMalformed /\ Receive

NextMalformed ==
    \/ ReceiveMalformed
    \/ ReceiveWellFormed
    \/ \E t \in Threads : Run(t)
    \/ Exit

\* The listener when publishers may also send malformed messages.
SpecMalformed == Init /\ [][NextMalformed]_vars

(***************************************************************************)
(* recieve_message with its clock and the message's data: the skew test   *)
(* and the decoding before update.                                         *)
(***************************************************************************)

\* Clock readings (seconds) and message ages tried around the skew limit.
Nows == {3 * _LISTEN_SKEW}
Ages == {-1, _LISTEN_SKEW - 1, _LISTEN_SKEW, _LISTEN_SKEW + 1}

\* Message data: a well-formed body, or bytes that do not decode.
Data == Payload \cup {Undecodable}

\* the skew test with <= in place of <
skewed_inclusive(publish_time, now) == publish_time <= (now - _LISTEN_SKEW)

\* message.publish_time < (now - _LISTEN_SKEW)
skewed(publish_time, now) == publish_time < (now - _LISTEN_SKEW)

\* recieve_message runs on thread t and is left before update is called:
\* by the return of line 311 after message.ack() (acked), or by the
\* exception of line 313 or 315.
left_before_update(t, acked) ==
    /\ free_thread(t)
    /\ started < MaxMessages
    /\ started' = started + 1
    /\ acks' = IF acked THEN acks + 1 ELSE acks
    /\ LET alone == alive /\ NoCallRunning /\ ~overlapped
       IN /\ overlapped' = (overlapped \/ ~NoCallRunning)
          /\ pkg' = IF alone THEN begin_call(pkg) ELSE last_command_only(pkg)
          /\ nodev' = IF alone THEN begin_call(nodev) ELSE last_command_only(nodev)
          /\ script' = IF alone THEN begin_call(script) ELSE last_command_only(script)
          /\ before' = IF alone THEN pkg ELSE Context(DisplayState(Blink1))
          /\ script_before' = IF alone THEN script
                              ELSE Context(script_DisplayState(Blink1))
    /\ msg' = NoMessage
    /\ UNCHANGED <<thread_vars, alive, shown, stream_vars>>

\* recieve_message, lines 303-311, for a skewed message: it is acknowledged
\* and dropped.
discard(t) == left_before_update(t, TRUE)

\* recieve_message, lines 313-315, for data that is not UTF-8 text or not
\* JSON: message.data.decode or json.loads raises, the callback ends
\* without update and without message.ack().
decode_raises(t) == left_before_update(t, FALSE)

\* recieve_message is called with a message published at publish_time while
\* the clock reads now: a skewed message is acknowledged and dropped; any
\* other is decoded, which may raise, and handed to update.
ReceiveTimed ==
    /\ started < MaxTimed
    /\ \E t \in Threads, data \in Data, now \in Nows, age \in Ages :
        LET publish_time == now - age
            outcome == IF skewed(publish_time, now) THEN "discarded"
                       ELSE IF data = Undecodable THEN "raised"
                       ELSE "update"
        IN /\ CASE outcome = "discarded" -> discard(t)
                [] outcome = "raised" -> decode_raises(t)
                [] outcome = "update" -> enter(t, data)
           /\ cb' = [publish_time |-> publish_time, now |-> now,
                     decodable |-> data /= Undecodable, outcome |-> outcome]
    /\ UNCHANGED <<tracked, since>>

NextSkew ==
    \/ ReceiveTimed
    \/ \E t \in Threads : Run(t)
    \/ Exit

\* The listener with the clock and the data of its messages followed.
SpecSkew == Init /\ [][NextSkew]_vars

(***************************************************************************)
(* The publishing side: poll_av_and_publish, one process per source.      *)
(***************************************************************************)

\* one loop iteration that never assigns last_payload
poll_iteration_forgets(last, payload) ==
    IF payload /= last
    THEN [last_payload |-> last, published |-> <<payload>>]
    ELSE [last_payload |-> last, published |-> <<>>]

\* One iteration of the while loop, after the probe (lines 92-94): compare
\* with last_payload; on a difference remember the payload and hand it to
\* publish_payload.
poll_iteration(last, payload) ==
    IF payload /= last
    THEN [last_payload |-> payload, published |-> <<payload>>]
    ELSE [last_payload |-> last, published |-> <<>>]

\* The payload built from the two lsof results (numbers of owner PIDs).
probe_payload(audio_owners, video_owners, source_name) ==
    [audio |-> audio_owners > 0, video |-> video_owners > 0, source |-> source_name]

Publishing == {s \in Sources : stream_pc[s] = "publish"}

\* One poll of the process of source s, lines 83-93: the probe, the
\* comparison and the assignment of last_payload; on a difference
\* publish_payload is called next, otherwise the process sleeps.
Poll(s) ==
    /\ stream_pc[s] = "poll"
    /\ Len(topic) + Cardinality(Publishing) < MaxPublished
    /\ \E audio_owners, video_owners \in 0..MaxOwners :
        LET payload == probe_payload(audio_owners, video_owners, s)
            r == poll_iteration(last_payload[s], payload)
        IN /\ last_payload' = [last_payload EXCEPT ![s] = r.last_payload]
           /\ stream_pc' = [stream_pc EXCEPT ![s] =
                               IF r.published /= <<>> THEN "publish" ELSE "poll"]
           /\ stream_payload' = [stream_payload EXCEPT ![s] =
                               IF r.published /= <<>> THEN r.published[1] ELSE NoMessage]
           /\ poll' = [source |-> s, payload |-> payload,
                       prev |-> last_payload[s], published |-> r.published]
    /\ UNCHANGED <<object_vars, thread_vars, hist_vars, alive, started, acks,
                   overlapped, skew_vars, track_vars, topic>>

\* publish_payload, lines 171-175, when future.result() returns: the
\* message is on the topic; the process sleeps and polls again.
Publish(s) ==
    /\ stream_pc[s] = "publish"
    /\ topic' = Append(topic, stream_payload[s])
    /\ stream_pc' = [stream_pc EXCEPT ![s] = "poll"]
    /\ stream_payload' = [stream_payload EXCEPT ![s] = NoMessage]
    /\ UNCHANGED <<object_vars, thread_vars, hist_vars, alive, started, acks,
                   overlapped, skew_vars, track_vars, last_payload, poll>>

\* publish_payload when future.result() (or publisher.publish) raises, or
\* the SIGINT handler raises SystemExit after line 93: nothing catches the
\* exception, it ends the loop and the process.
PublishRaises(s) ==
    /\ stream_pc[s] = "publish"
    /\ stream_pc' = [stream_pc EXCEPT ![s] = "raised"]
    /\ UNCHANGED <<object_vars, thread_vars, hist_vars, alive, started, acks,
                   overlapped, skew_vars, track_vars, last_payload,
                   stream_payload, topic, poll>>

\* The loop is left by an exception outside publish_payload: lsof raises
\* SystemError (lines 47-58, called at lines 83-84) or the SIGINT handler
\* shutdown raises SystemExit while the process probes, compares or sleeps.
\* Nothing of that poll has been assigned or published.
PollRaises(s) ==
    /\ stream_pc[s] = "poll"
    /\ stream_pc' = [stream_pc EXCEPT ![s] = "raised"]
    /\ UNCHANGED <<object_vars, thread_vars, hist_vars, alive, started, acks,
                   overlapped, skew_vars, track_vars, last_payload,
                   stream_payload, topic, poll>>

NextStream ==
    \E s \in Sources : Poll(s) \/ PollRaises(s) \/ Publish(s) \/ PublishRaises(s)

\* The publishers, each polling its devices and publishing to the topic.
SpecStream == Init /\ [][NextStream]_vars

(***************************************************************************)
(* Properties.  Callbacks run on the subscriber's threads with no lock,   *)
(* so the properties are stated of every reachable state: of a thread's   *)
(* position and locals, of the states in which no callback runs, or of    *)
(* single steps.  A Called state is the state right after a call          *)
(* update(msg) has returned and been acknowledged in a run whose          *)
(* callbacks have so far run one at a time, the scope still open; before  *)
(* and script_before are the objects as that call found them.             *)
(***************************************************************************)

Quiet == ~overlapped /\ NoCallRunning

Called == alive /\ Quiet /\ msg /= NoMessage

\* "some stored source state has the flag set", written on the mapping itself
AnyAudio(source_states) == \E s \in DOMAIN source_states : source_states[s].audio
AnyVideo(source_states) == \E s \in DOMAIN source_states : source_states[s].video

\* The colour commands a device receives for a sequence of requested colours.
Commands(req) == [i \in 1..Len(req) |-> fade_to_rgb(req[i])]

\* The threads whose callback is inside update: past the read of the stored
\* source state (line 254) and before the _last_color write has been made.
InUpdate ==
    {t \in Threads : th[t].pc \in {"store", "recompute", "iterate", "compare",
                                    "assign", "blink_new", "blink_old",
                                    "blink_old_cmd", "solid", "set_last"}}

\* The threads that run a callback.
Busy == {t \in Threads : th[t].pc /= "idle"}

\* Thread t has sent the first command of a blink sequence and not yet the
\* final one.
InSequence(t) ==
    \/ th[t].pc \in {"blink_old", "blink_old_cmd", "solid"}
    \/ th[t].pc = "blink_new" /\ th[t].i > 0

\* The callback with locals l has just chosen its target colour.
Chosen(l) == l.pc = "blink_new" /\ l.i = 0

\* C1: after every completed update (and at construction, with no sources), the
\* cached combined state has video set iff some stored source state has video
\* set, and audio set iff some stored source state has audio set.  With two
\* callbacks overlapping, one assigns the state it computed before the other
\* stored.
C1_CombinedIsOr ==
    /\ NoCallRunning =>
          /\ pkg.self.state.video = AnyVideo(pkg.self.source_states)
          /\ pkg.self.state.audio = AnyAudio(pkg.self.source_states)
          /\ script.self.state.video = AnyVideo(script.self.source_states)
          /\ script.self.state.audio = AnyAudio(script.self.source_states)
    /\ started = 0 =>
          /\ pkg.self.source_states = <<>>
          /\ pkg.self.state = [audio |-> FALSE, video |-> FALSE]

\* C2: the display is never driven with the combined state that is already
\* cached: a callback that has passed the test of line 261 and is about to
\* assign _state and blink holds a combined state other than _state.  Two
\* overlapping callbacks both pass the test before either assigns.
C2_NoFlicker ==
    \A t \in Threads : th[t].pc = "assign" => th[t].state /= pkg.self.state

\* C3: two deliveries of the same payload with nothing delivered in between
\* produce at most one display transition.  A second delivery that starts
\* before the first has stored its payload makes a second one.
C3_PairShowsOnce == since = "nothing" => shown <= 1

\* C4: (package variant) while a callback is between the first and the last
\* command of its blink sequence, no command of another callback reaches the
\* indicator and _last_color is not written, so that the colour alternated
\* with is the colour held before the update and _last_color changes only
\* after the final command; and the alternation command carries the colour
\* that _last_color holds.
C4_BlinkAndHold ==
    [][\A t \in Threads :
          InSequence(t) =>
             /\ (th'[t] = th[t] /\ alive' = alive) =>
                   /\ pkg'.lit = pkg.lit
                   /\ pkg'.self.last_color = pkg.self.last_color
             /\ (th[t].pc = "blink_old_cmd" /\ th'[t] /= th[t]) =>
                   pkg'.lit = pkg.self.last_color
      ]_vars

\* C5: the target colour a callback chooses for the combined state it assigns
\* is VIDEO when the state has video (whatever audio is), AUDIO when it has
\* audio and no video, and OFF (package, with or without a device) or CLEAR
\* (script) when it has neither.
C5_Priority ==
    \A t \in Threads :
        /\ Chosen(th[t]) =>
              th[t].color = IF th[t].state.video THEN _RGB_VIDEO
                            ELSE IF th[t].state.audio THEN _RGB_AUDIO
                            ELSE _RGB_OFF
        /\ Chosen(nodev_th[t]) =>
              nodev_th[t].color = IF nodev_th[t].state.video THEN _RGB_VIDEO
                                  ELSE IF nodev_th[t].state.audio THEN _RGB_AUDIO
                                  ELSE _RGB_OFF
        /\ Chosen(script_th[t]) =>
              script_th[t].color = IF script_th[t].state.video THEN _RGB_VIDEO
                                   ELSE IF script_th[t].state.audio THEN _RGB_AUDIO
                                   ELSE _RGB_CLEAR

\* While another callback runs, a callback has assigned {audio, video} and
\* both variants have chosen VIDEO.
C5_Witness ==
    \E t \in Threads :
        /\ overlapped
        /\ Chosen(th[t])
        /\ th[t].state = [audio |-> TRUE, video |-> TRUE]
        /\ th[t].color = _RGB_VIDEO
        /\ Chosen(script_th[t])
        /\ script_th[t].color = _RGB_VIDEO
        /\ \E u \in Threads : u /= t /\ th[u].pc /= "idle"

\* C6: whenever the target colour of an update (the priority colour of the
\* combined state it leaves) equals the colour held before it (_last_color),
\* the update emits no indicator command, even when the combined state
\* itself changed.
C6_ColourIdempotence ==
    LET target == IF pkg.self.state.video THEN _RGB_VIDEO
                  ELSE IF pkg.self.state.audio THEN _RGB_AUDIO
                  ELSE _RGB_OFF
    IN (Called /\ target = before.self.last_color) =>
           (pkg.req = <<>> /\ pkg.hw = <<>>)

\* C7: a delivery of the followed message makes a display transition only
\* if none has been made for that message yet, whatever was delivered in
\* between.  A redelivery that overlaps the first delivery passes the test
\* of line 261 as well.
C7_RedeliveryShowsNothing ==
    \A t \in Threads :
        (th[t].pc = "assign" /\ th[t].payload = tracked) => shown = 0

\* C8: (script variant) the all-clear update alternates 3 times between CLEAR
\* and the colour held before the update, and the final command sets OFF.
\* The script's _blink alternates with OFF, whatever colour was held.
C8_ClearPulseAgainstHeld ==
    (/\ Called
     /\ script.self.state /= script_before.self.state
     /\ script.self.state = [audio |-> FALSE, video |-> FALSE])
    => script.req = <<_RGB_CLEAR, script_before.lit, _RGB_CLEAR, script_before.lit,
                      _RGB_CLEAR, script_before.lit, _RGB_OFF>>

\* C9: (package variant) between update calls _last_color is the priority
\* colour of the cached combined state: OFF for all-false (as at
\* construction), AUDIO for audio only, VIDEO whenever video is set.  Of two
\* overlapping callbacks the one that assigned _state first may write
\* _last_color last.
C9_LastColorOfState ==
    NoCallRunning =>
        /\ pkg.self.state.video => pkg.self.last_color = _RGB_VIDEO
        /\ (pkg.self.state.audio /\ ~pkg.self.state.video)
              => pkg.self.last_color = _RGB_AUDIO
        /\ (~pkg.self.state.audio /\ ~pkg.self.state.video)
              => pkg.self.last_color = _RGB_OFF

\* C10: given the same messages on the same schedule, a DisplayState with
\* device=None and one with a device have the same per-source mapping,
\* _state and _last_color, their callbacks are at the same line with the
\* same locals (so they request the same colours), and their logs of
\* requested colours are equal: a callback on the one ends, by return or by
\* exception, where the callback on the other does.  With no device nothing
\* reaches hardware and the missing device raises nothing, in update and in
\* __exit__, while with a device every requested colour (and the final off)
\* reaches it.
C10_NoDeviceSameBookkeeping ==
    /\ nodev.self.source_states = pkg.self.source_states
    /\ nodev.self.state = pkg.self.state
    /\ nodev.self.last_color = pkg.self.last_color
    /\ nodev_th = th
    /\ nodev.req = pkg.req
    /\ nodev.hw = <<>>
    /\ nodev.raised = None
    /\ (alive /\ ~overlapped) => pkg.hw = Commands(pkg.req)
    /\ ~alive => pkg.hw /= <<>>

\* Two callbacks overlap; one is about to write _last_color after its blink
\* sequence on both objects, and only the real device shows the colour.
C10_Witness ==
    \E t \in Threads :
        /\ alive
        /\ overlapped
        /\ th[t].pc = "set_last"
        /\ nodev_th[t].pc = "set_last"
        /\ th[t].color = _RGB_VIDEO
        /\ pkg.lit = _RGB_VIDEO
        /\ pkg.hw = <<fade_to_rgb(_RGB_VIDEO)>>
        /\ nodev.hw = <<>>
        /\ nodev.self.device = None
        /\ pkg.self.device = Blink1

\* C11: when the subscriber runs the callback for two messages on two
\* threads, at most one of them is inside DisplayState.update at a time: one
\* update completes before the other begins.  The listener takes no lock, so
\* a second update starts while the first is in its blink sequence.
C11_UpdatesDoNotInterleave == Cardinality(InUpdate) <= 1

\* C12: once the listening scope has been left, the last command the device
\* received is off and the indicator is dark.  A callback that is in its
\* blink sequence when the main thread leaves the scope goes on to command
\* colours after the release.
C12_OffIsLastCommand ==
    ~alive => (pkg.hw = <<off>> /\ pkg.lit = _RGB_OFF)

\* C13: a call of update with a payload that names a source and lacks the
\* audio or video key fails (raises) and leaves the per-source mapping,
\* _state and _last_color exactly as they were, so that later well-formed
\* updates are processed normally (none of them raises).
C13_MalformedLeavesStateIntact ==
    /\ (Called /\ msg \in MalformedPayload) =>
          /\ pkg.raised /= None
          /\ pkg.self = before.self
    /\ (Called /\ msg \in Payload) => pkg.raised = None

\* C14, as amended: a message published more than one minute (_LISTEN_SKEW)
\* before the clock reading is acknowledged and dropped: update is not
\* called for it (no thread enters it), and the step leaves the per-source
\* mapping, _state, _last_color and the light as they were; a message no
\* older than that whose data decodes is handed to update; one whose data
\* does not decode raises before update is called and is not acknowledged.
C14_StaleFilter ==
    [][started' = started + 1 =>
          LET stale == cb'.now - cb'.publish_time > _LISTEN_SKEW
          IN /\ cb'.outcome = (IF stale THEN "discarded"
                               ELSE IF cb'.decodable THEN "update"
                               ELSE "raised")
             /\ cb'.outcome = "discarded" =>
                   /\ acks' = acks + 1
                   /\ thread_vars' = thread_vars
                   /\ pkg'.self = pkg.self /\ pkg'.lit = pkg.lit
                   /\ nodev'.self = nodev.self
                   /\ script'.self = script.self /\ script'.lit = script.lit
             /\ cb'.outcome = "raised" =>
                   /\ acks' = acks
                   /\ thread_vars' = thread_vars
                   /\ pkg'.self = pkg.self /\ pkg'.lit = pkg.lit
             /\ cb'.outcome = "update" =>
                   /\ acks' = acks
                   /\ \E t \in Threads :
                         /\ th[t].pc = "idle"
                         /\ th'[t].pc = "lookup"
                         /\ th'[t].payload \in Payload
                   /\ pkg'.self = pkg.self /\ pkg'.lit = pkg.lit
      ]_vars

\* C14, as stated: a message within the one-minute window is always handed
\* to update.
C14_InWindowAlwaysUpdated ==
    (cb /= NoCallback /\ cb.now - cb.publish_time <= _LISTEN_SKEW)
        => cb.outcome = "update"

\* A message one second too old arrived while a callback was blinking VIDEO:
\* it was acknowledged at once, the callback is still at its line.
C14_Witness ==
    /\ cb /= NoCallback
    /\ cb.now - cb.publish_time = _LISTEN_SKEW + 1
    /\ cb.outcome = "discarded"
    /\ started = 2
    /\ acks = 1
    /\ \E t \in Threads : th[t].pc = "blink_old" /\ th[t].color = _RGB_VIDEO
    /\ pkg.lit = _RGB_VIDEO

\* The published payloads of source s, in order.
RECURSIVE PublishedBy(_, _)
PublishedBy(s, seq) ==
    IF seq = <<>> THEN <<>>
    ELSE IF Head(seq).source = s THEN <<Head(seq)>> \o PublishedBy(s, Tail(seq))
    ELSE PublishedBy(s, Tail(seq))

LastOf(seq) == IF seq = <<>> THEN NoMessage ELSE seq[Len(seq)]

\* C15, as amended: a process publishes on its first poll and afterwards on
\* exactly the polls whose payload differs from the one it published last;
\* no two payloads it publishes in a row are equal; and every poll that
\* observes a change results in one publish, unless the publish call raises:
\* then last_payload has been assigned, nothing is published and the
\* process has ended.  A process ended by an exception before the
\* comparison (the probe raising, SIGINT) has published the payload it
\* assigned last.
C15_PublishOnChange ==
    /\ \A s \in Sources :
          LET mine == PublishedBy(s, topic)
          IN /\ \A i \in 1..(Len(mine) - 1) : mine[i] /= mine[i + 1]
             /\ stream_pc[s] = "poll" =>
                   /\ last_payload[s] = LastOf(mine)
                   /\ stream_payload[s] = NoMessage
             /\ stream_pc[s] = "publish" =>
                   /\ stream_payload[s] = last_payload[s]
                   /\ stream_payload[s] /= LastOf(mine)
                   /\ stream_payload[s].source = s
             /\ (stream_pc[s] = "raised" /\ stream_payload[s] /= NoMessage) =>
                   /\ last_payload[s] /= LastOf(mine)
                   /\ stream_payload[s] = last_payload[s]
             /\ (stream_pc[s] = "raised" /\ stream_payload[s] = NoMessage) =>
                   last_payload[s] = LastOf(mine)
    /\ poll /= NoPoll =>
          /\ poll.published = (IF poll.prev = NoMessage \/ poll.payload /= poll.prev
                               THEN <<poll.payload>>
                               ELSE <<>>)
          /\ (poll.published = <<>> /\ stream_pc[poll.source] = "poll") =>
                LastOf(PublishedBy(poll.source, topic)) = poll.payload

\* C15, as stated: every poll that observes a change relative to the last
\* published payload results in one publish: a process that is not inside
\* publish_payload has published the payload it saw last.
C15_EveryChangePublished ==
    \A s \in Sources :
        stream_pc[s] /= "publish" =>
            last_payload[s] = LastOf(PublishedBy(s, topic))

\* A process has published twice and its latest poll, seeing the same
\* payload again, published nothing.
C15_Witness ==
    /\ poll /= NoPoll
    /\ poll.published = <<>>
    /\ poll.payload = poll.prev
    /\ poll.payload.audio
    /\ stream_pc[poll.source] = "poll"
    /\ Len(PublishedBy(poll.source, topic)) = 2

\* C16: no step removes a source from the per-source mapping, and when no
\* callback runs a stored state with video (audio) set has the combined
\* video (audio) set and the held colour is not OFF.  A callback that
\* computed all-clear before another stored video assigns it afterwards.
C16_SourcesPersist ==
    [][/\ DOMAIN pkg.self.source_states \subseteq DOMAIN pkg'.self.source_states
       /\ (\A u \in Threads : th'[u].pc = "idle") =>
             \A s \in DOMAIN pkg'.self.source_states :
                /\ pkg'.self.source_states[s].video => pkg'.self.state.video
                /\ pkg'.self.source_states[s].audio => pkg'.self.state.audio
                /\ (pkg'.self.source_states[s].video
                       \/ pkg'.self.source_states[s].audio)
                      => pkg'.self.last_color /= _RGB_OFF
      ]_vars

\* C17: an update from a source not yet known, with audio and video false,
\* does not get past the test of line 261: it leaves _state and _last_color
\* alone and emits nothing.  When another callback has stored a payload and
\* not yet assigned _state, the recomputed state differs from _state and the
\* all-false first message blinks.
C17_ColdStartAllFalse ==
    \A t \in Threads :
        (/\ th[t].fresh
         /\ th[t].payload /= NoMessage
         /\ ~th[t].payload.audio /\ ~th[t].payload.video)
        => th[t].pc /= "assign"

C19_FrameOfMapping ==
    [][/\ \A t \in Threads :
             (th[t].pc \in {"lookup", "compare"} /\ th'[t].pc = "ack") =>
                 pkg'.self.source_states[th[t].payload.source] = th[t].payload
       /\ (\A u \in Threads : th'[u].pc = "idle") =>
             \A s \in DOMAIN pkg'.self.source_states :
                pkg'.self.source_states[s] /= EmptyDict
      ]_vars

\* The object after update(p) then update(q), starting from pkg.
After(p, q) == update(update(begin_call(pkg), p), q)

\* C20: from any state of the DisplayState between calls, two payloads of
\* different sources applied in either order leave the same per-source
\* mapping, the same combined state and the same _last_color.  After
\* overlapping callbacks _last_color need not be the colour of _state, and
\* then the two orders end differently.
C20_OrderIndependent ==
    NoCallRunning =>
        \A p, q \in Payload :
            p.source < q.source =>
                LET p_then_q == After(p, q).self
                    q_then_p == After(q, p).self
                IN /\ p_then_q.source_states = q_then_p.source_states
                   /\ p_then_q.state = q_then_p.state
                   /\ p_then_q.last_color = q_then_p.last_color

====
